---- MODULE Spec2Model ----
(***************************************************************************)
(* Model of the connectivity monitor of src/internet_dropoff.py            *)
(* (class InternetMonitor): the check cycle of run, the UP/DOWN handlers,  *)
(* the downtime ledger, generate_stats / save_stats and the shutdown       *)
(* finalization.                                                           *)
(*                                                                         *)
(* Time is an integer number of clock ticks.  Every datetime.now() of the  *)
(* code is one read of the clock; between two reads the clock advances by  *)
(* a value of Advance (0: the two reads return the same instant).          *)
(* Values the code rounds to two decimals (round(x, 2)) are kept as        *)
(* integers in hundredths.                                                 *)
(***************************************************************************)
EXTENDS Integers, Sequences, FiniteSets, TLC

----------------------------------------------------------------------------
(* Bounds of the model *)

\* number of check cycles of one run
MaxCycles == 4
\* largest clock value
MaxTime == 3
\* largest alert_after_failures of the configurations explored
MaxAlert == 2
\* number of check cycles of one run on a file system whose writes can fail
MaxFaultyCycles == 2
\* number of check cycles explored after a long history has built up
MaxLateCycles == 3
\* number of polls of the pointer position explored
MaxPolls == 23
\* largest count run_multiple_tests is called with
MaxCount == 3

\* what the clock can advance by between two successive reads
Advance == {0, 1}
\* latencies (ms) a successful probe can report
Latencies == {1, 2}

----------------------------------------------------------------------------
(* Values *)

\* Python's None (Optional[datetime], Optional[float]); timestamps are >= 0
None == -1

\* len(self.connection_log) % 10 == 0: the period of the stats save
SavePeriod == 10

\* the configurations explored (load_config: every key may come from the file)
Configs ==
  [ target_servers       : {<< >>, <<"A">>},
    threshold_ms         : {1},
    check_interval       : {0, 1},
    alert_after_failures : 1..MaxAlert,
    verbose              : BOOLEAN ]

\* ping_server: (success, response_time) of one probe
ProbeOutcomes ==
  {<<FALSE, None>>, <<TRUE, None>>} \cup {<<TRUE, l>> : l \in Latencies}

\* one probe outcome per configured server
ProbeResults(servers) == [1..Len(servers) -> ProbeOutcomes]

----------------------------------------------------------------------------
(* Arithmetic helpers *)

RECURSIVE SumSeq(_)
SumSeq(s) == IF s = << >> THEN 0 ELSE Head(s) + SumSeq(Tail(s))

RECURSIVE MinSeq(_)
MinSeq(s) ==
  IF Len(s) = 1 THEN s[1]
  ELSE LET m == MinSeq(Tail(s)) IN IF s[1] <= m THEN s[1] ELSE m

RECURSIVE MaxSeq(_)
MaxSeq(s) ==
  IF Len(s) = 1 THEN s[1]
  ELSE LET m == MaxSeq(Tail(s)) IN IF s[1] >= m THEN s[1] ELSE m

\* n / d (d > 0) rounded to the nearest integer, ties to even: round()
RoundDiv(n, d) ==
  LET q == n \div d
      r == n % d
  IN  IF 2 * r < d THEN q
      ELSE IF 2 * r > d THEN q + 1
      ELSE IF q % 2 = 0 THEN q ELSE q + 1

\* statistics.mean, rounded to two decimals, in hundredths
Mean100(s) == RoundDiv(100 * SumSeq(s), Len(s))

RECURSIVE Insert(_, _)
Insert(x, s) ==
  IF s = << >> THEN <<x>>
  ELSE IF x <= Head(s) THEN <<x>> \o s
  ELSE <<Head(s)>> \o Insert(x, Tail(s))

RECURSIVE Sorted(_)
Sorted(s) == IF s = << >> THEN << >> ELSE Insert(Head(s), Sorted(Tail(s)))

\* statistics.median, rounded to two decimals, in hundredths
Median100(s) ==
  LET d == Sorted(s)
      n == Len(d)
  IN  IF n % 2 = 1 THEN 100 * d[(n + 1) \div 2]
      ELSE RoundDiv(100 * (d[n \div 2] + d[n \div 2 + 1]), 2)

----------------------------------------------------------------------------
(* State *)

VARIABLES
  config,                  \* self.config
  running,                 \* self.running
  connection_log,          \* self.connection_log
  downtime_periods,        \* self.downtime_periods
  current_downtime_start,  \* self.current_downtime_start
  consecutive_failures,    \* the local of run
  stats_file,              \* content of config["stats_file"]: << >> or <<stats>>
  pc,                      \* position of run: check, sleep, finally, done
  exc,                     \* the exception run ends with, "none" if none
  clock,                   \* the last value read from the clock
  verdicts,                \* is_connected of every cycle so far, in order
  last_probe,              \* the probe outcomes of the latest cycle
  last_check,              \* what check_connectivity returned for them: << >> or <<result>>
  log_file,                \* content of config["log_file"]: the lines written
  \* move_mouse_pointer.py, main
  prev_mouse_position,     \* prev_mouse_position
  idle_time,               \* idle_time
  current_mouse_position,  \* what the latest poll returned, NoPosition for None
  nudge,                   \* the move the latest poll attempted, if any
  polls,                   \* number of polls made
  failed_moves,            \* number of moves attempted that failed
  mouse_pc,                \* position of main: loop, done
  \* internet_speed_test.py, SpeedTester.run_multiple_tests
  test_history,            \* self.test_history
  history_file,            \* content of config["history_file"]
  test_count,              \* the argument count
  test_index,              \* the loop variable i of the next test
  test_results,            \* the local results
  test_outcomes,           \* what run_single_test returned, test by test
  waits,                   \* the values of i after whose test the wait was made
  tester_pc,               \* position of the call: loop, returned, exited
  returned                 \* the list the call returned

monitorVars == <<config, running, connection_log, downtime_periods,
                 current_downtime_start, consecutive_failures, stats_file, pc,
                 exc, clock, verdicts, last_probe, last_check, log_file>>

mouseVars == <<prev_mouse_position, idle_time, current_mouse_position, nudge,
               polls, failed_moves, mouse_pc>>

testerVars == <<test_history, history_file, test_count, test_index,
                test_results, test_outcomes, waits, tester_pc, returned>>

vars == <<monitorVars, mouseVars, testerVars>>

\* get_mouse_position_macos returned None
NoPosition == << >>

\* no move was attempted
NoNudge == [attempted |-> FALSE, target |-> NoPosition, screen |-> NoPosition,
            moved |-> FALSE]

\* the mouse script is not running
MouseNotRun ==
  /\ prev_mouse_position = NoPosition
  /\ idle_time = 0
  /\ current_mouse_position = NoPosition
  /\ nudge = NoNudge
  /\ polls = 0
  /\ failed_moves = 0
  /\ mouse_pc = "done"

\* the speed tester is not running
TesterNotRun ==
  /\ test_history = << >>
  /\ history_file = << >>
  /\ test_count = 0
  /\ test_index = 0
  /\ test_results = << >>
  /\ test_outcomes = << >>
  /\ waits = {}
  /\ tester_pc = "exited"
  /\ returned = << >>

\* what an attempt to write a file ends with: the write is made, open()
\* raises, or the write raises after open() has truncated the file (the
\* log file is opened for appending and is never truncated)
WriteOutcomes == {"ok", "open_fails", "write_fails"}

\* the outcome of the write to each file during one step
FsOutcomes == [log : {"ok", "open_fails"}, stats : WriteOutcomes]

\* every write succeeds
Healthy == [log |-> "ok", stats |-> "ok"]

\* the fields of the monitor object the handlers read and write
Self ==
  [ clock                  |-> clock,
    connection_log         |-> connection_log,
    downtime_periods       |-> downtime_periods,
    current_downtime_start |-> current_downtime_start,
    stats_file             |-> stats_file,
    log_file               |-> log_file,
    fs                     |-> Healthy,
    exc                    |-> exc ]

----------------------------------------------------------------------------
(* check_connectivity *)

\* the loop over target_servers, from server i on
RECURSIVE ScanServers(_, _, _, _, _)
ScanServers(servers, results, threshold, i, acc) ==
  IF i > Len(servers) THEN acc
  ELSE
    LET success       == results[i][1]
        response_time == results[i][2]
        next ==
          IF success /\ response_time # None
          THEN IF response_time <= threshold
               THEN [acc EXCEPT !.successful_pings = Append(@, response_time)]
               ELSE [acc EXCEPT !.failed_servers =
                       Append(@, [server |-> servers[i], slow |-> response_time])]
          ELSE [acc EXCEPT !.failed_servers =
                  Append(@, [server |-> servers[i], slow |-> None])]
    IN  ScanServers(servers, results, threshold, i + 1, next)

\* check_connectivity that takes any successful probe as a good one
CheckConnectivityAnySuccess(cfg, results) ==
  LET scan == ScanServers(cfg.target_servers, results, cfg.threshold_ms, 1,
                          [successful_pings |-> << >>, failed_servers |-> << >>])
  IN  [ is_connected  |-> \E i \in 1..Len(results) : results[i][1],
        response_times |-> scan.successful_pings,
        status_detail |-> [ good   |-> Len(scan.successful_pings),
                            total  |-> Len(cfg.target_servers),
                            failed |-> scan.failed_servers ] ]

\* check_connectivity that reports a connection when no server failed
CheckConnectivityNoneFailed(cfg, results) ==
  LET scan == ScanServers(cfg.target_servers, results, cfg.threshold_ms, 1,
                          [successful_pings |-> << >>, failed_servers |-> << >>])
  IN  [ is_connected  |-> scan.failed_servers = << >>,
        response_times |-> scan.successful_pings,
        status_detail |-> [ good   |-> Len(scan.successful_pings),
                            total  |-> Len(cfg.target_servers),
                            failed |-> scan.failed_servers ] ]

CheckConnectivity(cfg, results) ==
  LET scan == ScanServers(cfg.target_servers, results, cfg.threshold_ms, 1,
                          [successful_pings |-> << >>, failed_servers |-> << >>])
  IN  [ is_connected  |-> Len(scan.successful_pings) > 0,
        response_times |-> scan.successful_pings,
        status_detail |-> [ good   |-> Len(scan.successful_pings),
                            total  |-> Len(cfg.target_servers),
                            failed |-> scan.failed_servers ] ]

----------------------------------------------------------------------------
(* log_event and the handlers.  m is the monitor (Self), d.. are the       *)
(* advances of the clock before each read the handler makes; m.fs is what  *)
(* the writes to the two files end with.                                   *)

\* log_event that gives up when the log file cannot be written
LogEventStopsOnWriteError(m, d, event_type, message, response_times) ==
  LET timestamp == m.clock + d
  IN  IF m.fs.log = "ok"
      THEN [m EXCEPT !.clock = timestamp,
                     !.log_file =
                        Append(@, [timestamp |-> timestamp, event |-> event_type]),
                     !.connection_log =
                        Append(@, [ timestamp      |-> timestamp,
                                    event          |-> event_type,
                                    message        |-> message,
                                    response_times |-> response_times ])]
      ELSE [m EXCEPT !.clock = timestamp]

\* lines 132-136: the line is appended to the log file unless open() or
\* write() raises; the exception is caught and reported
LogEvent(m, d, event_type, message, response_times) ==
  LET timestamp == m.clock + d
  IN  [m EXCEPT !.clock = timestamp,
                !.log_file =
                   IF m.fs.log = "ok"
                   THEN Append(@, [timestamp |-> timestamp, event |-> event_type])
                   ELSE @,
                !.connection_log =
                   Append(@, [ timestamp      |-> timestamp,
                               event          |-> event_type,
                               message        |-> message,
                               response_times |-> response_times ])]

\* handle_connection_down without the test for an open period
HandleConnectionDownUnguarded(m, d1, d2, status_detail) ==
  LogEvent([m EXCEPT !.clock = m.clock + d1,
                     !.current_downtime_start = m.clock + d1],
           d2, "DOWN",
           [kind |-> "lost", after |-> None, detail |-> status_detail],
           << >>)

\* handle_connection_down that logs the event before it takes the start
HandleConnectionDownLogsFirst(m, d1, d2, status_detail) ==
  IF m.current_downtime_start = None
  THEN LET logged == LogEvent(m, d1, "DOWN",
                              [kind |-> "lost", after |-> None, detail |-> status_detail],
                              << >>)
       IN  [logged EXCEPT !.clock = logged.clock + d2,
                          !.current_downtime_start = logged.clock + d2]
  ELSE m

\* handle_connection_down that reports the outage again while it lasts
HandleConnectionDownRelogs(m, d1, d2, status_detail) ==
  IF m.current_downtime_start = None
  THEN LogEvent([m EXCEPT !.clock = m.clock + d1,
                          !.current_downtime_start = m.clock + d1],
                d2, "DOWN",
                [kind |-> "lost", after |-> None, detail |-> status_detail],
                << >>)
  ELSE LogEvent(m, d2, "DOWN",
                [kind |-> "lost", after |-> None, detail |-> status_detail],
                << >>)

HandleConnectionDown(m, d1, d2, status_detail) ==
  IF m.current_downtime_start = None
  THEN LogEvent([m EXCEPT !.clock = m.clock + d1,
                          !.current_downtime_start = m.clock + d1],
                d2, "DOWN",
                [kind |-> "lost", after |-> None, detail |-> status_detail],
                << >>)
  ELSE m

\* the record both closes of a period build: two reads of the clock
DowntimeRecord(start, t1, t2) ==
  [start |-> start, end |-> t2, duration_seconds |-> t1 - start]

\* handle_connection_restored that closes the period but leaves it open
HandleConnectionRestoredKeepsOpen(m, cfg, d1, d2, d3, response_times, status_detail) ==
  IF m.current_downtime_start # None
  THEN
    LET t1 == m.clock + d1
        t2 == t1 + d2
        downtime_duration == t1 - m.current_downtime_start
    IN  LogEvent([m EXCEPT !.clock = t2,
                           !.downtime_periods =
                              Append(@, [start |-> m.current_downtime_start,
                                         end |-> t2,
                                         duration_seconds |-> downtime_duration])],
                 d3, "UP",
                 [kind |-> "restored", after |-> downtime_duration,
                  detail |-> status_detail],
                 response_times)
  ELSE
    IF cfg.verbose
    THEN LogEvent(m, d3, "UP",
                  [kind |-> "routine", after |-> None, detail |-> status_detail],
                  response_times)
    ELSE m

\* handle_connection_restored that keeps only the newest record in the ledger
HandleConnectionRestoredReplaces(m, cfg, d1, d2, d3, response_times, status_detail) ==
  IF m.current_downtime_start # None
  THEN
    LET t1 == m.clock + d1
        t2 == t1 + d2
        downtime_duration == t1 - m.current_downtime_start
    IN  LogEvent([m EXCEPT !.clock = t2,
                           !.current_downtime_start = None,
                           !.downtime_periods =
                              <<[start |-> m.current_downtime_start,
                                 end |-> t2,
                                 duration_seconds |-> downtime_duration]>>],
                 d3, "UP",
                 [kind |-> "restored", after |-> downtime_duration,
                  detail |-> status_detail],
                 response_times)
  ELSE
    IF cfg.verbose
    THEN LogEvent(m, d3, "UP",
                  [kind |-> "routine", after |-> None, detail |-> status_detail],
                  response_times)
    ELSE m

\* handle_connection_restored without the test for an open period
HandleConnectionRestoredUnguarded(m, cfg, d1, d2, d3, response_times, status_detail) ==
  LET t1 == m.clock + d1
      t2 == t1 + d2
      downtime_duration == t1 - m.current_downtime_start
      logged ==
        LogEvent([m EXCEPT !.clock = t2,
                           !.downtime_periods =
                              Append(@, DowntimeRecord(m.current_downtime_start, t1, t2))],
                 d3, "UP",
                 [kind |-> "restored", after |-> downtime_duration,
                  detail |-> status_detail],
                 response_times)
  IN  [logged EXCEPT !.current_downtime_start = None]

\* handle_connection_restored that logs the routine event whatever verbose is
HandleConnectionRestoredAlwaysLogs(m, cfg, d1, d2, d3, response_times, status_detail) ==
  IF m.current_downtime_start # None
  THEN
    LET t1 == m.clock + d1
        t2 == t1 + d2
        downtime_duration == t1 - m.current_downtime_start
        logged ==
          LogEvent([m EXCEPT !.clock = t2,
                             !.downtime_periods =
                                Append(@, DowntimeRecord(m.current_downtime_start, t1, t2))],
                   d3, "UP",
                   [kind |-> "restored", after |-> downtime_duration,
                    detail |-> status_detail],
                   response_times)
    IN  [logged EXCEPT !.current_downtime_start = None]
  ELSE
    LogEvent(m, d3, "UP",
             [kind |-> "routine", after |-> None, detail |-> status_detail],
             response_times)

HandleConnectionRestored(m, cfg, d1, d2, d3, response_times, status_detail) ==
  IF m.current_downtime_start # None
  THEN
    LET t1 == m.clock + d1
        t2 == t1 + d2
        downtime_duration == t1 - m.current_downtime_start
        logged ==
          LogEvent([m EXCEPT !.clock = t2,
                             !.downtime_periods =
                                Append(@, DowntimeRecord(m.current_downtime_start, t1, t2))],
                   d3, "UP",
                   [kind |-> "restored", after |-> downtime_duration,
                    detail |-> status_detail],
                   response_times)
    IN  [logged EXCEPT !.current_downtime_start = None]
  ELSE
    IF cfg.verbose
    THEN LogEvent(m, d3, "UP",
                  [kind |-> "routine", after |-> None, detail |-> status_detail],
                  response_times)
    ELSE m

----------------------------------------------------------------------------
(* generate_stats.  A snapshot is a record; fields is the set of keys the  *)
(* returned dict holds (a key outside fields is absent and its value here  *)
(* is 0); raised names the exception the call ends with instead of         *)
(* returning.                                                              *)

StatsKeys ==
  {"monitoring_start", "last_updated", "total_checks", "connection_failures",
   "total_downtime_periods", "total_downtime_seconds", "uptime_percentage",
   "average_response_time_ms", "median_response_time_ms",
   "min_response_time_ms", "max_response_time_ms"}

DowntimeKeys ==
  {"average_downtime_seconds", "longest_downtime_seconds",
   "shortest_downtime_seconds"}

\* the dict {} of line 173
EmptyStats ==
  [ raised |-> "none", fields |-> {},
    monitoring_start |-> 0, last_updated |-> 0, total_checks |-> 0,
    connection_failures |-> 0, total_downtime_periods |-> 0,
    total_downtime_seconds |-> 0, uptime_percentage |-> 0,
    average_response_time_ms |-> 0, median_response_time_ms |-> 0,
    min_response_time_ms |-> 0, max_response_time_ms |-> 0,
    average_downtime_seconds |-> 0, longest_downtime_seconds |-> 0,
    shortest_downtime_seconds |-> 0 ]

\* the call ends with ZeroDivisionError (line 191, total_time = 0)
RaisedStats == [EmptyStats EXCEPT !.raised = "ZeroDivisionError"]

RECURSIVE CountDown(_)
CountDown(log) ==
  IF log = << >> THEN 0
  ELSE (IF Head(log).event = "DOWN" THEN 1 ELSE 0) + CountDown(Tail(log))

RECURSIVE Durations(_)
Durations(periods) ==
  IF periods = << >> THEN << >>
  ELSE <<Head(periods).duration_seconds>> \o Durations(Tail(periods))

RECURSIVE AllResponseTimes(_)
AllResponseTimes(log) ==
  IF log = << >> THEN << >>
  ELSE Head(log).response_times \o AllResponseTimes(Tail(log))

\* lines 179-196: total_downtime
TotalDowntime(m, now) ==
  IF m.downtime_periods # << >>
  THEN SumSeq(Durations(m.downtime_periods))
       + (IF m.current_downtime_start # None
          THEN now - m.current_downtime_start ELSE 0)
  ELSE 0

\* lines 187-191: total_time; 1 stands for "not computed" on the branches
\* that do not divide
TotalTime(m, now) ==
  IF m.downtime_periods # << >> /\ m.connection_log # << >>
  THEN now - m.connection_log[1].timestamp
  ELSE 1

\* lines 179-196: uptime_percentage, rounded (line 211), in hundredths
UptimePercentage(m, now) ==
  IF m.downtime_periods # << >> /\ m.connection_log # << >>
  THEN RoundDiv((TotalTime(m, now) - TotalDowntime(m, now)) * 10000,
                TotalTime(m, now))
  ELSE 10000

\* lines 175-226: the body after the early return
FullStats(m, now) ==
  IF TotalTime(m, now) = 0 THEN RaisedStats
  ELSE
    LET all_response_times == AllResponseTimes(m.connection_log)
        downtime_durations == Durations(m.downtime_periods)
        some == all_response_times # << >>
        closed == m.downtime_periods # << >>
    IN  [ raised |-> "none",
          fields |-> StatsKeys \cup (IF closed THEN DowntimeKeys ELSE {}),
          monitoring_start |->
            IF m.connection_log # << >> THEN m.connection_log[1].timestamp ELSE now,
          last_updated |-> now,
          total_checks |-> Len(m.connection_log),
          connection_failures |-> CountDown(m.connection_log),
          total_downtime_periods |-> Len(m.downtime_periods),
          total_downtime_seconds |-> TotalDowntime(m, now),
          uptime_percentage |-> UptimePercentage(m, now),
          average_response_time_ms |-> IF some THEN Mean100(all_response_times) ELSE 0,
          median_response_time_ms |-> IF some THEN Median100(all_response_times) ELSE 0,
          min_response_time_ms |-> IF some THEN 100 * MinSeq(all_response_times) ELSE 0,
          max_response_time_ms |-> IF some THEN 100 * MaxSeq(all_response_times) ELSE 0,
          average_downtime_seconds |-> IF closed THEN Mean100(downtime_durations) ELSE 0,
          longest_downtime_seconds |-> IF closed THEN MaxSeq(downtime_durations) ELSE 0,
          shortest_downtime_seconds |-> IF closed THEN MinSeq(downtime_durations) ELSE 0 ]

\* generate_stats without the early return for an empty history
GenerateStatsNoEarlyReturn(m, now) == FullStats(m, now)

\* generate_stats that takes the outage in progress for one more period
GenerateStatsCountsOpenPeriod(m, now) ==
  IF m.connection_log = << >> THEN EmptyStats
  ELSE FullStats([m EXCEPT !.downtime_periods =
                    IF m.current_downtime_start # None
                    THEN Append(@, DowntimeRecord(m.current_downtime_start, now, now))
                    ELSE @],
                 now)

GenerateStats(m, now) ==
  IF m.connection_log = << >> THEN EmptyStats ELSE FullStats(m, now)

\* generate_stats that flushes the history it has just aggregated
CallGenerateStatsFlushes(m, d) ==
  LET now == IF m.connection_log = << >> THEN m.clock ELSE m.clock + d
  IN  [m |-> [m EXCEPT !.clock = now, !.connection_log = << >>],
       stats |-> GenerateStats(m, now)]

\* generate_stats as the code calls it: the clock is read (line 175) only
\* after the early return
CallGenerateStats(m, d) ==
  LET now == IF m.connection_log = << >> THEN m.clock ELSE m.clock + d
  IN  [m |-> [m EXCEPT !.clock = now], stats |-> GenerateStats(m, now)]

\* save_stats: generate_stats is called outside the try; inside it the
\* file is opened with 'w' (truncated) and the snapshot dumped, and an
\* exception of either is caught and reported
SaveStats(m, d) ==
  LET call == CallGenerateStats(m, d)
  IN  IF call.stats.raised # "none"
      THEN [call.m EXCEPT !.exc = call.stats.raised]
      ELSE [call.m EXCEPT !.stats_file =
              CASE m.fs.stats = "ok"          -> <<call.stats>>
                [] m.fs.stats = "open_fails"  -> @
                [] m.fs.stats = "write_fails" -> << >>]

\* print_summary: only its call of generate_stats touches the monitor
PrintSummary(m, d) ==
  LET call == CallGenerateStats(m, d)
  IN  IF call.stats.raised # "none"
      THEN [call.m EXCEPT !.exc = call.stats.raised]
      ELSE call.m

----------------------------------------------------------------------------
(* run *)

\* run with the threshold test written > instead of >=
RunCycleLate(m, cfg, failures, results, d) ==
  LET chk == CheckConnectivity(cfg, results)
      handled ==
        IF chk.is_connected
        THEN [ m |-> HandleConnectionRestored(m, cfg, d[1], d[2], d[3],
                                              chk.response_times, chk.status_detail),
               failures |-> 0 ]
        ELSE [ m |-> IF failures + 1 > cfg.alert_after_failures
                     THEN HandleConnectionDown(m, d[1], d[2], chk.status_detail)
                     ELSE m,
               failures |-> failures + 1 ]
      saved ==
        IF Len(handled.m.connection_log) % SavePeriod = 0
        THEN SaveStats(handled.m, d[4])
        ELSE handled.m
  IN  [m |-> saved, failures |-> handled.failures, verdict |-> chk.is_connected]

\* run without the debounce: every failed cycle is reported as an outage
RunCycleNoDebounce(m, cfg, failures, results, d) ==
  LET chk == CheckConnectivity(cfg, results)
      handled ==
        IF chk.is_connected
        THEN [ m |-> HandleConnectionRestored(m, cfg, d[1], d[2], d[3],
                                              chk.response_times, chk.status_detail),
               failures |-> 0 ]
        ELSE [ m |-> HandleConnectionDown(m, d[1], d[2], chk.status_detail),
               failures |-> failures + 1 ]
      saved ==
        IF Len(handled.m.connection_log) % SavePeriod = 0
        THEN SaveStats(handled.m, d[4])
        ELSE handled.m
  IN  [m |-> saved, failures |-> handled.failures, verdict |-> chk.is_connected]

\* lines 274-286: the body of one pass of the while loop, up to the sleep.
\* d[1..4] are the advances of the clock before the reads the pass makes.
RunCycle(m, cfg, failures, results, d) ==
  LET chk == CheckConnectivity(cfg, results)
      handled ==
        IF chk.is_connected
        THEN [ m |-> HandleConnectionRestored(m, cfg, d[1], d[2], d[3],
                                              chk.response_times, chk.status_detail),
               failures |-> 0 ]
        ELSE [ m |-> IF failures + 1 >= cfg.alert_after_failures
                     THEN HandleConnectionDown(m, d[1], d[2], chk.status_detail)
                     ELSE m,
               failures |-> failures + 1 ]
      saved ==
        IF Len(handled.m.connection_log) % SavePeriod = 0
        THEN SaveStats(handled.m, d[4])
        ELSE handled.m
  IN  [m |-> saved, failures |-> handled.failures, verdict |-> chk.is_connected]

\* lines 293-306: the finally block
FinalCleanup(m, d) ==
  LET closed ==
        IF m.current_downtime_start # None
        THEN LET t1 == m.clock + d[1]
                 t2 == t1 + d[2]
             IN  [m EXCEPT !.clock = t2,
                           !.downtime_periods =
                              Append(@, DowntimeRecord(m.current_downtime_start, t1, t2))]
        ELSE m
      saved == SaveStats([closed EXCEPT !.exc = "none"], d[3])
  IN  IF saved.exc # "none" THEN saved
      ELSE LET printed == PrintSummary(saved, d[4])
           IN  IF printed.exc # "none" THEN printed
               ELSE [printed EXCEPT !.exc = m.exc]

Reads == [1..4 -> Advance]

Store(m) ==
  /\ clock' = m.clock
  /\ connection_log' = m.connection_log
  /\ downtime_periods' = m.downtime_periods
  /\ current_downtime_start' = m.current_downtime_start
  /\ stats_file' = m.stats_file
  /\ log_file' = m.log_file
  /\ exc' = m.exc

Init ==
  /\ config \in Configs
  /\ running = TRUE
  /\ connection_log = << >>
  /\ downtime_periods = << >>
  /\ current_downtime_start = None
  /\ consecutive_failures = 0
  /\ stats_file = << >>
  /\ pc = "check"
  /\ exc = "none"
  /\ clock = 0
  /\ verdicts = << >>
  /\ last_probe = << >>
  /\ last_check = << >>
  /\ log_file = << >>
  /\ MouseNotRun
  /\ TesterNotRun

\* one pass of the loop body; an exception of save_stats leaves the loop.
\* limit bounds the cycles of the run, faults is what the file writes of
\* the pass can end with.
CycleStep(limit, faults) ==
  /\ pc = "check"
  /\ running
  /\ Len(verdicts) < limit
  /\ \E results \in ProbeResults(config.target_servers), d \in Reads, f \in faults :
       LET r == RunCycle([Self EXCEPT !.fs = f], config, consecutive_failures,
                         results, d)
       IN  /\ r.m.clock <= MaxTime
           /\ Store(r.m)
           /\ consecutive_failures' = r.failures
           /\ verdicts' = Append(verdicts, r.verdict)
           /\ last_probe' = results
           /\ last_check' = <<CheckConnectivity(config, results)>>
           /\ pc' = IF r.m.exc = "none" THEN "sleep" ELSE "finally"
  /\ UNCHANGED <<mouseVars, testerVars>>
  /\ UNCHANGED <<config, running>>

\* a pass of the loop whose file writes succeed
CheckCycle == CycleStep(MaxCycles, {Healthy})

\* time.sleep(check_interval)
Sleep ==
  /\ pc = "sleep"
  /\ clock + config.check_interval <= MaxTime
  /\ clock' = clock + config.check_interval
  /\ pc' = "check"
  /\ UNCHANGED <<mouseVars, testerVars>>
  /\ UNCHANGED <<config, running, connection_log, downtime_periods,
                 current_downtime_start, consecutive_failures, stats_file,
                 exc, verdicts, last_probe, last_check, log_file>>

\* a signal handler that also restarts the failure count
SignalHandlerResets ==
  /\ pc \in {"check", "sleep"}
  /\ running
  /\ running' = FALSE
  /\ consecutive_failures' = 0
  /\ UNCHANGED <<mouseVars, testerVars>>
  /\ UNCHANGED <<config, connection_log, downtime_periods,
                 current_downtime_start, stats_file,
                 pc, exc, clock, verdicts, last_probe, last_check, log_file>>

\* signal_handler (SIGINT, SIGTERM), at any point of the loop
SignalHandler ==
  /\ pc \in {"check", "sleep"}
  /\ running
  /\ running' = FALSE
  /\ UNCHANGED <<mouseVars, testerVars>>
  /\ UNCHANGED <<config, connection_log, downtime_periods,
                 current_downtime_start, consecutive_failures, stats_file,
                 pc, exc, clock, verdicts, last_probe, last_check, log_file>>

\* except KeyboardInterrupt
KeyboardInterrupt ==
  /\ pc \in {"check", "sleep"}
  /\ running' = FALSE
  /\ pc' = "finally"
  /\ UNCHANGED <<mouseVars, testerVars>>
  /\ UNCHANGED <<config, connection_log, downtime_periods,
                 current_downtime_start, consecutive_failures, stats_file,
                 exc, clock, verdicts, last_probe, last_check, log_file>>

\* while self.running: the test fails
WhileExit ==
  /\ pc = "check"
  /\ ~running
  /\ pc' = "finally"
  /\ UNCHANGED <<mouseVars, testerVars>>
  /\ UNCHANGED <<config, running, connection_log, downtime_periods,
                 current_downtime_start, consecutive_failures, stats_file,
                 exc, clock, verdicts, last_probe, last_check, log_file>>

\* the finally block; faults is what its write of the statistics file can
\* end with
FinalStep(faults) ==
  /\ pc = "finally"
  /\ \E d \in Reads, f \in faults :
       LET m == FinalCleanup([Self EXCEPT !.fs = f], d)
       IN  /\ m.clock <= MaxTime
           /\ Store(m)
  /\ pc' = "done"
  /\ UNCHANGED <<mouseVars, testerVars>>
  /\ UNCHANGED <<config, running, consecutive_failures, verdicts, last_probe, last_check>>

\* the finally block when its write succeeds
Finally == FinalStep({Healthy})

Next ==
  \/ CheckCycle
  \/ Sleep
  \/ SignalHandler
  \/ KeyboardInterrupt
  \/ WhileExit
  \/ Finally

Spec == Init /\ [][Next]_vars

\* the single thread of run keeps going: a sleep ends, the loop test is
\* made, the finally block is executed.  The finally block can always be
\* executed once it is entered (a clock that does not advance is always
\* allowed), so ENABLED <<Finally>>_vars is pc = "finally"; its weak
\* fairness is written out with that condition in place of ENABLED.
FinallyIsTaken == <>[](pc = "finally") => []<><<Finally>>_vars

SpecFair ==
  /\ Init
  /\ [][Next]_vars
  /\ WF_vars(Sleep)
  /\ WF_vars(WhileExit)
  /\ FinallyIsTaken

----------------------------------------------------------------------------
(* run on a file system whose writes can fail: every write of the log file *)
(* and of the statistics file ends with any of WriteOutcomes               *)

\* the configurations explored on the faulty file system
FaultyConfigs ==
  [ target_servers       : {<<"A">>},
    threshold_ms         : {1},
    check_interval       : {1},
    alert_after_failures : 1..MaxAlert,
    verbose              : BOOLEAN ]

InitFaulty ==
  /\ config \in FaultyConfigs
  /\ running = TRUE
  /\ connection_log = << >>
  /\ downtime_periods = << >>
  /\ current_downtime_start = None
  /\ consecutive_failures = 0
  /\ stats_file = << >>
  /\ pc = "check"
  /\ exc = "none"
  /\ clock = 0
  /\ verdicts = << >>
  /\ last_probe = << >>
  /\ last_check = << >>
  /\ log_file = << >>
  /\ MouseNotRun
  /\ TesterNotRun

CheckCycleFaulty == CycleStep(MaxFaultyCycles, FsOutcomes)

FinallyFaulty == FinalStep(FsOutcomes)

NextFaulty ==
  \/ CheckCycleFaulty
  \/ Sleep
  \/ SignalHandler
  \/ KeyboardInterrupt
  \/ WhileExit
  \/ FinallyFaulty

SpecFaulty == InitFaulty /\ [][NextFaulty]_vars

----------------------------------------------------------------------------
(* run once a long history has built up: the runs start in the state the   *)
(* monitor is in after WarmCycles check cycles made at one instant         *)
(* (check_interval 0, a clock that does not advance), the first of them    *)
(* failed or connected, the others connected.                              *)

\* the cycles already made: two short of the period of the stats save
WarmCycles == SavePeriod - 2

LongRunConfigs ==
  [ target_servers       : {<<"A">>},
    threshold_ms         : {1},
    check_interval       : {0},
    alert_after_failures : 1..MaxAlert,
    verbose              : {TRUE} ]

\* the probe results of the cycles already made
WarmProbes ==
  { [i \in 1..WarmCycles |-> IF i = 1 THEN <<first>> ELSE << <<TRUE, 1>> >>] :
      first \in {<<FALSE, None>>, <<TRUE, 1>>} }

\* the monitor as __init__ leaves it
NewMonitor ==
  [ clock                  |-> 0,
    connection_log         |-> << >>,
    downtime_periods       |-> << >>,
    current_downtime_start |-> None,
    stats_file             |-> << >>,
    log_file               |-> << >>,
    fs                     |-> Healthy,
    exc                    |-> "none" ]

\* the first k passes of the loop on the probe results w, each followed by
\* its sleep
RECURSIVE AfterCycles(_, _, _)
AfterCycles(cfg, w, k) ==
  IF k = 0 THEN [m |-> NewMonitor, failures |-> 0]
  ELSE LET before == AfterCycles(cfg, w, k - 1)
           r == RunCycle(before.m, cfg, before.failures, w[k], [i \in 1..4 |-> 0])
       IN  [m |-> [r.m EXCEPT !.clock = @ + cfg.check_interval],
            failures |-> r.failures]

InitLate ==
  \E cfg \in LongRunConfigs, w \in WarmProbes :
    LET a == AfterCycles(cfg, w, WarmCycles)
    IN  /\ config = cfg
        /\ running = TRUE
        /\ connection_log = a.m.connection_log
        /\ downtime_periods = a.m.downtime_periods
        /\ current_downtime_start = a.m.current_downtime_start
        /\ consecutive_failures = a.failures
        /\ stats_file = a.m.stats_file
        /\ pc = "check"
        /\ exc = a.m.exc
        /\ clock = a.m.clock
        /\ verdicts = [i \in 1..WarmCycles |-> CheckConnectivity(cfg, w[i]).is_connected]
        /\ last_probe = w[WarmCycles]
        /\ last_check = <<CheckConnectivity(cfg, w[WarmCycles])>>
        /\ log_file = a.m.log_file
        /\ MouseNotRun
        /\ TesterNotRun

CheckCycleLate == CycleStep(WarmCycles + MaxLateCycles, {Healthy})

NextLate ==
  \/ CheckCycleLate
  \/ Sleep
  \/ SignalHandler
  \/ KeyboardInterrupt
  \/ WhileExit
  \/ Finally

SpecLate == InitLate /\ [][NextLate]_vars

----------------------------------------------------------------------------
(* check_connectivity on its own: one call per step, for configurations    *)
(* with up to three servers and both thresholds                            *)

EvalConfigs ==
  [ target_servers       : {<< >>, <<"A">>, <<"A", "B">>, <<"A", "B", "C">>},
    threshold_ms         : {1, 2},
    check_interval       : {1},
    alert_after_failures : {1},
    verbose              : {TRUE} ]

InitEval ==
  /\ config \in EvalConfigs
  /\ running = TRUE
  /\ connection_log = << >>
  /\ downtime_periods = << >>
  /\ current_downtime_start = None
  /\ consecutive_failures = 0
  /\ stats_file = << >>
  /\ pc = "check"
  /\ exc = "none"
  /\ clock = 0
  /\ verdicts = << >>
  /\ last_probe = << >>
  /\ last_check = << >>
  /\ log_file = << >>
  /\ MouseNotRun
  /\ TesterNotRun

\* line 274: is_connected, response_times, status_detail = check_connectivity()
Evaluate ==
  /\ \E results \in ProbeResults(config.target_servers) :
       /\ last_probe' = results
       /\ last_check' = <<CheckConnectivity(config, results)>>
  /\ UNCHANGED <<mouseVars, testerVars>>
  /\ UNCHANGED <<config, running, connection_log, downtime_periods,
                 current_downtime_start, consecutive_failures, stats_file,
                 pc, exc, clock, verdicts, log_file>>

NextEval == Evaluate

SpecEval == InitEval /\ [][NextEval]_vars

----------------------------------------------------------------------------
(* move_mouse_pointer.py: the loop of main *)

\* line 8
idle_threshold == 10

\* lines 134-135: the move is by 5 in each direction
NudgeOffset == 5

\* lines 139-140: the margin kept to the screen border
ScreenMargin == 10

\* get_screen_size: the default (line 80) and a resolution parsed from
\* system_profiler
Screens == {<<1920, 1080>>, <<1280, 800>>}

\* positions get_mouse_position_macos reports: a corner, the middle of the
\* screen, a place near the opposite corner
Points == {<<0, 0>>, <<100, 100>>, <<1915, 1078>>}

\* the monitor is not running
MonitorNotRun ==
  /\ config = [target_servers |-> <<"A">>, threshold_ms |-> 1,
               check_interval |-> 1, alert_after_failures |-> 1,
               verbose |-> TRUE]
  /\ running = FALSE
  /\ connection_log = << >>
  /\ downtime_periods = << >>
  /\ current_downtime_start = None
  /\ consecutive_failures = 0
  /\ stats_file = << >>
  /\ pc = "done"
  /\ exc = "none"
  /\ clock = 0
  /\ verdicts = << >>
  /\ last_probe = << >>
  /\ last_check = << >>
  /\ log_file = << >>

\* min(max(v, lo), hi)
Clamp(v, lo, hi) ==
  LET raised == IF v >= lo THEN v ELSE lo
  IN  IF raised <= hi THEN raised ELSE hi

\* lines 134-140
NudgeTarget(current, screen) ==
  << Clamp(current[1] + NudgeOffset, ScreenMargin, screen[1] - ScreenMargin),
     Clamp(current[2] + NudgeOffset, ScreenMargin, screen[2] - ScreenMargin) >>

\* a pass that moves the pointer only once idle_time is above the threshold
PollPassLate(prev, idle, current, screen, move_ok) ==
  IF current = NoPosition
  THEN [prev |-> prev, idle |-> idle, nudge |-> NoNudge]
  ELSE IF current # prev
  THEN [prev |-> current, idle |-> 0, nudge |-> NoNudge]
  ELSE IF idle + 1 > idle_threshold
  THEN LET target == NudgeTarget(current, screen)
       IN  [prev  |-> IF move_ok THEN target ELSE prev,
            idle  |-> IF move_ok THEN 0 ELSE idle + 1,
            nudge |-> [attempted |-> TRUE, target |-> target,
                       screen |-> screen, moved |-> move_ok]]
  ELSE [prev |-> prev, idle |-> idle + 1, nudge |-> NoNudge]

\* lines 116-148: one pass of the loop after its sleep. current is what
\* get_mouse_position_macos returns, screen what get_screen_size returns
\* and move_ok what move_mouse_macos returns if they are called.
PollPass(prev, idle, current, screen, move_ok) ==
  IF current = NoPosition
  THEN [prev |-> prev, idle |-> idle, nudge |-> NoNudge]
  ELSE IF current # prev
  THEN [prev |-> current, idle |-> 0, nudge |-> NoNudge]
  ELSE IF idle + 1 >= idle_threshold
  THEN LET target == NudgeTarget(current, screen)
       IN  [prev  |-> IF move_ok THEN target ELSE prev,
            idle  |-> IF move_ok THEN 0 ELSE idle + 1,
            nudge |-> [attempted |-> TRUE, target |-> target,
                       screen |-> screen, moved |-> move_ok]]
  ELSE [prev |-> prev, idle |-> idle + 1, nudge |-> NoNudge]

\* lines 99-108: the loop is entered with the position read at the start
InitMouse ==
  /\ MonitorNotRun
  /\ TesterNotRun
  /\ prev_mouse_position \in Points
  /\ current_mouse_position = prev_mouse_position
  /\ idle_time = 0
  /\ nudge = NoNudge
  /\ polls = 0
  /\ failed_moves = 0
  /\ mouse_pc = "loop"

\* lines 113-148: the sleep and the pass that follows it. The pointer is
\* reported where it was recorded, at one of the Points, or not at all.
Poll ==
  /\ mouse_pc = "loop"
  /\ polls < MaxPolls
  /\ \E current \in Points \cup {prev_mouse_position, NoPosition},
        screen \in Screens, move_ok \in BOOLEAN :
       LET r == PollPass(prev_mouse_position, idle_time, current, screen, move_ok)
       IN  /\ prev_mouse_position' = r.prev
           /\ idle_time' = r.idle
           /\ nudge' = r.nudge
           /\ current_mouse_position' = current
           /\ failed_moves' =
                IF r.nudge.attempted /\ ~r.nudge.moved
                THEN failed_moves + 1 ELSE failed_moves
  /\ polls' = polls + 1
  /\ UNCHANGED mouse_pc
  /\ UNCHANGED <<monitorVars, testerVars>>

\* lines 150-152: Ctrl+C during the sleep ends the loop
MouseInterrupt ==
  /\ mouse_pc = "loop"
  /\ mouse_pc' = "done"
  /\ UNCHANGED <<prev_mouse_position, idle_time, current_mouse_position,
                 nudge, polls, failed_moves>>
  /\ UNCHANGED <<monitorVars, testerVars>>

NextMouse ==
  \/ Poll
  \/ MouseInterrupt

SpecMouse == InitMouse /\ [][NextMouse]_vars

----------------------------------------------------------------------------
(* internet_speed_test.py: SpeedTester.run_multiple_tests *)

\* the results run_single_test returns when a test succeeds (lines 252-284),
\* each stood for by the download_bps it holds
TestResults == {1, 2}

\* run_single_test: a result, or None when every method failed (line 236)
TestOutcomes == TestResults \cup {None}

\* load_history: the history file is absent or holds earlier results
StoredHistories == {<< >>, <<1>>}

\* the fields and locals run_multiple_tests reads and writes
Tester ==
  [ test_history |-> test_history,
    history_file |-> history_file,
    results      |-> test_results,
    i            |-> test_index,
    waits        |-> waits ]

\* save_history: the file is rewritten with the whole history
SaveHistory(t) == [t EXCEPT !.history_file = t.test_history]

\* a loop body that waits after every successful test
RunTestWaitsAfterEach(t, count, result) ==
  IF result # None
  THEN LET appended == [t EXCEPT !.results = Append(@, result),
                                 !.test_history = Append(@, result)]
           saved == SaveHistory(appended)
       IN  [saved EXCEPT !.waits = IF t.i < count THEN @ \cup {t.i} ELSE @,
                         !.i = @ + 1]
  ELSE [t EXCEPT !.i = @ + 1]

\* lines 422-436: the body of the loop for one i, result being what
\* run_single_test returned
RunTest(t, count, result) ==
  IF result # None
  THEN LET appended == [t EXCEPT !.results = Append(@, result),
                                 !.test_history = Append(@, result)]
           saved == SaveHistory(appended)
       IN  [saved EXCEPT !.waits = IF t.i < count - 1 THEN @ \cup {t.i} ELSE @,
                         !.i = @ + 1]
  ELSE [t EXCEPT !.i = @ + 1]

StoreTester(t) ==
  /\ test_history' = t.test_history
  /\ history_file' = t.history_file
  /\ test_results' = t.results
  /\ test_index' = t.i
  /\ waits' = t.waits

\* __init__ (lines 26-27) and the entry of run_multiple_tests (line 420)
InitTester ==
  /\ MonitorNotRun
  /\ MouseNotRun
  /\ test_history \in StoredHistories
  /\ history_file = test_history
  /\ test_count \in 0..MaxCount
  /\ test_index = 0
  /\ test_results = << >>
  /\ test_outcomes = << >>
  /\ waits = {}
  /\ tester_pc = "loop"
  /\ returned = << >>

\* one pass of for i in range(count)
RunMultipleTestsPass ==
  /\ tester_pc = "loop"
  /\ test_index < test_count
  /\ \E result \in TestOutcomes :
       /\ StoreTester(RunTest(Tester, test_count, result))
       /\ test_outcomes' = Append(test_outcomes, result)
  /\ UNCHANGED <<test_count, tester_pc, returned>>
  /\ UNCHANGED <<monitorVars, mouseVars>>

\* lines 438-442: the loop is over
RunMultipleTestsReturn ==
  /\ tester_pc = "loop"
  /\ test_index >= test_count
  /\ returned' = test_results
  /\ tester_pc' = "returned"
  /\ UNCHANGED <<test_history, history_file, test_count, test_index,
                 test_results, test_outcomes, waits>>
  /\ UNCHANGED <<monitorVars, mouseVars>>

\* signal_handler (lines 92-96): the history is saved and the process exits
TesterSignalHandler ==
  /\ tester_pc = "loop"
  /\ StoreTester(SaveHistory(Tester))
  /\ tester_pc' = "exited"
  /\ UNCHANGED <<test_count, test_outcomes, returned>>
  /\ UNCHANGED <<monitorVars, mouseVars>>

NextTester ==
  \/ RunMultipleTestsPass
  \/ RunMultipleTestsReturn
  \/ TesterSignalHandler

SpecTester == InitTester /\ [][NextTester]_vars

----------------------------------------------------------------------------
(* Vocabulary of the properties *)

\* the monitor is DOWN: an outage is open
Down == current_downtime_start # None

\* number of connected=false cycles at the end of a verdict sequence
RECURSIVE TrailingFailures(_)
TrailingFailures(v) ==
  IF v = << >> \/ v[Len(v)] THEN 0
  ELSE 1 + TrailingFailures(SubSeq(v, 1, Len(v) - 1))

\* the step is one check cycle
IsCycle == verdicts' # verdicts

\* the verdict of the cycle the step makes
CycleVerdict == verdicts'[Len(verdicts')]

\* the good samples of a cycle, from its probe outcomes: the latencies of the
\* probes that succeeded within the threshold, in server order
GoodSamples(results) ==
  LET good(r) == r[1] /\ r[2] # None /\ r[2] <= config.threshold_ms
      kept == SelectSeq(results, good)
  IN  [i \in 1..Len(kept) |-> kept[i][2]]

\* s' is s with exactly one element appended
AppendsOne(s, t) == Len(t) = Len(s) + 1 /\ SubSeq(t, 1, Len(s)) = s

Last(s) == s[Len(s)]

----------------------------------------------------------------------------
(* C1: for every sequence of verdicts and every alert_after_failures >= 1, *)
(* the monitor is DOWN exactly when the verdicts so far end with at least  *)
(* alert_after_failures consecutive connected=false cycles (so a           *)
(* connected=true cycle restarts the count from zero), and the step that   *)
(* enters DOWN is the one that logs a DOWN event.                          *)
C1_DownIffConsecutiveFailures ==
  /\ [](Down <=> TrailingFailures(verdicts) >= config.alert_after_failures)
  /\ [][ /\ (~Down /\ Down') =>
              /\ AppendsOne(connection_log, connection_log')
              /\ Last(connection_log').event = "DOWN"
              /\ current_downtime_start' >= clock
         /\ (CountDown(connection_log') # CountDown(connection_log)) =>
              (~Down /\ Down') ]_vars

\* an outage was entered a second time, after a restoration reset the count
C1_Witness ==
  /\ Down
  /\ config.alert_after_failures = 2
  /\ verdicts = <<FALSE, FALSE, TRUE, FALSE>> \/ verdicts = <<FALSE, TRUE, FALSE, FALSE>>
  /\ CountDown(connection_log) >= 1

(* C2: at most one downtime period is open: an open outage's start is      *)
(* never replaced by a new start (it can only be kept or cleared), no DOWN *)
(* event is logged while a period is open, and every record of the ledger  *)
(* is closed.                                                              *)
C2_AtMostOneOpen ==
  /\ [](\A i \in 1..Len(downtime_periods) : downtime_periods[i].end # None)
  /\ [][ /\ Down => current_downtime_start' \in {current_downtime_start, None}
         /\ Down => CountDown(connection_log') = CountDown(connection_log) ]_vars

\* a failed cycle at or over the threshold happened while the period was open
C2_Witness ==
  /\ Down
  /\ pc = "sleep"
  /\ consecutive_failures > config.alert_after_failures
  /\ clock > current_downtime_start

(* C3: a cycle with connected=true while DOWN moves the monitor to UP in   *)
(* that same cycle, appends exactly one closed record for the open period, *)
(* and logs exactly one restoration UP event whose response_times are the  *)
(* good samples of that cycle.                                             *)
C3_ImmediateRestoration ==
  [][ (IsCycle /\ Down /\ CycleVerdict) =>
        /\ current_downtime_start' = None
        /\ AppendsOne(downtime_periods, downtime_periods')
        /\ Last(downtime_periods').start = current_downtime_start
        /\ Last(downtime_periods').end >= current_downtime_start
        /\ AppendsOne(connection_log, connection_log')
        /\ Last(connection_log').event = "UP"
        /\ Last(connection_log').message.kind = "restored"
        /\ Last(connection_log').response_times = GoodSamples(last_probe') ]_vars

\* a restoration has just happened, carrying a good sample
C3_Witness ==
  /\ pc = "sleep"
  /\ ~Down
  /\ Len(downtime_periods) = 1
  /\ connection_log # << >>
  /\ Last(connection_log).message.kind = "restored"
  /\ Last(connection_log).response_times = <<1>>
  /\ Last(verdicts)

(* C4: while UP, a run of fewer than alert_after_failures failed cycles    *)
(* and the connected cycle that ends it open no period, append no ledger   *)
(* record and log neither a DOWN event nor a restoration event: a failed   *)
(* cycle below the threshold changes nothing, the connected cycle logs at  *)
(* most a routine UP event.                                                *)
C4_FlickerIsSilent ==
  [][ (IsCycle /\ ~Down) =>
        /\ (~CycleVerdict /\ TrailingFailures(verdicts') < config.alert_after_failures) =>
              /\ ~Down'
              /\ downtime_periods' = downtime_periods
              /\ connection_log' = connection_log
        /\ CycleVerdict =>
              /\ ~Down'
              /\ downtime_periods' = downtime_periods
              /\ \/ connection_log' = connection_log
                 \/ /\ AppendsOne(connection_log, connection_log')
                    /\ Last(connection_log').event = "UP"
                    /\ Last(connection_log').message.kind = "routine" ]_vars

\* one failed cycle below the threshold, then a connected cycle
C4_Witness ==
  /\ config.alert_after_failures = 2
  /\ verdicts = <<TRUE, FALSE, TRUE>>
  /\ ~Down
  /\ downtime_periods = << >>
  /\ CountDown(connection_log) = 0

----------------------------------------------------------------------------
(* Vocabulary of the statistics properties *)

\* the query times a snapshot can be asked for in the current state
QueryTimes == clock..MaxTime

\* sum of the closed periods' durations
ClosedDowntime == SumSeq(Durations(downtime_periods))

\* the statistics file holds the snapshot of the current history and ledger
FinalSnapshotSaved ==
  /\ stats_file # << >>
  /\ IF connection_log = << >>
     THEN stats_file[1].fields = {}
     ELSE /\ stats_file[1].fields # {}
          /\ stats_file[1].total_checks = Len(connection_log)
          /\ stats_file[1].total_downtime_periods = Len(downtime_periods)

\* the step is the finally block of run
IsFinally == pc = "finally" /\ pc' = "done"

(* C5: when run stops while the monitor is DOWN, the finally block appends *)
(* exactly one closed record for the open period, ended at the time of the *)
(* stop, and on every exit path it saves the final statistics snapshot of  *)
(* the resulting history and ledger.                                       *)
C5_ShutdownFinalizes ==
  [][ IsFinally =>
        /\ Down => /\ AppendsOne(downtime_periods, downtime_periods')
                   /\ Last(downtime_periods').start = current_downtime_start
                   /\ Last(downtime_periods').end >= clock
        /\ ~Down => downtime_periods' = downtime_periods
        /\ FinalSnapshotSaved' ]_vars

(* C6: after any close of a downtime period, the shutdown finalization     *)
(* included, no period remains open: a step that appends a closed record   *)
(* to the ledger leaves current_downtime_start cleared.                    *)
C6_ClosedIsNotOpen ==
  [][ Len(downtime_periods') > Len(downtime_periods) => ~Down' ]_vars

(* C7: with a non-empty history, at every query time, the snapshot's       *)
(* total_downtime_seconds is the sum of the closed periods' durations plus *)
(* now - start of the open period, if one is open.                         *)
C7_TotalDowntimeCountsOpenPeriod ==
  connection_log # << >> =>
    \A now \in QueryTimes :
      LET s == GenerateStats(Self, now)
      IN  s.raised = "none" =>
            s.total_downtime_seconds =
              ClosedDowntime + (IF Down THEN now - current_downtime_start ELSE 0)

(* C8: with a non-empty history, at every query time, uptime_percentage    *)
(* lies in [0, 100], and it is exactly 100 when the ledger has neither a   *)
(* closed nor an open period.                                              *)
C8_UptimeInRange ==
  connection_log # << >> =>
    \A now \in QueryTimes :
      LET s == GenerateStats(Self, now)
      IN  s.raised = "none" =>
            /\ 0 <= s.uptime_percentage
            /\ s.uptime_percentage <= 10000
            /\ (downtime_periods = << >> /\ ~Down) => s.uptime_percentage = 10000

(* C9 as stated: the snapshot generate_stats returns for an empty history  *)
(* (here: the one a check cycle saved while the history was empty) has     *)
(* total_checks = 0, uptime_percentage = 100, the response-time fields at  *)
(* 0 and no downtime-period field.                                         *)
C9_EmptyHistoryZeroSnapshot ==
  (connection_log = << >> /\ stats_file # << >>) =>
    LET s == stats_file[1]
    IN  /\ s = GenerateStats(Self, clock)
        /\ StatsKeys \subseteq s.fields
        /\ s.fields \cap DowntimeKeys = {}
        /\ s.total_checks = 0
        /\ s.uptime_percentage = 10000
        /\ s.average_response_time_ms = 0
        /\ s.median_response_time_ms = 0
        /\ s.min_response_time_ms = 0
        /\ s.max_response_time_ms = 0

(* C9 amended: with an empty history generate_stats returns the empty      *)
(* snapshot, which holds no field at all, and a statistics file written    *)
(* while the history is empty holds that empty snapshot.                   *)
C9_EmptyHistoryEmptySnapshot ==
  connection_log = << >> =>
    /\ \A now \in QueryTimes :
         /\ GenerateStats(Self, now).raised = "none"
         /\ GenerateStats(Self, now).fields = {}
    /\ stats_file # << >> => stats_file[1].fields = {}

\* the statistics were saved by a check cycle that left the history empty
C9_Witness ==
  /\ connection_log = << >>
  /\ verdicts # << >>
  /\ stats_file # << >>
  /\ stats_file[1].fields = {}

(* C10: generate_stats never fails: in every reachable state and at every  *)
(* query time it returns a snapshot instead of raising.                    *)
C10_GenerateStatsNeverRaises ==
  \A now \in QueryTimes : GenerateStats(Self, now).raised = "none"

----------------------------------------------------------------------------
(* Vocabulary of the evaluator property *)

\* probe i of the latest cycle is a good one
IsGood(i) ==
  /\ last_probe[i][1]
  /\ last_probe[i][2] # None
  /\ last_probe[i][2] <= config.threshold_ms

\* the servers whose probe was not good, in configured order, a slow one
\* with its latency
ExpectedFailed ==
  LET n    == Len(config.target_servers)
      idx  == [i \in 1..n |-> i]
      bad(i) == ~IsGood(i)
      kept == SelectSeq(idx, bad)
  IN  [k \in 1..Len(kept) |->
         [ server |-> config.target_servers[kept[k]],
           slow   |-> IF last_probe[kept[k]][1] THEN last_probe[kept[k]][2]
                      ELSE None ]]

(* C11: for every set of probe results and every threshold,                *)
(* check_connectivity returns connected=true iff at least one endpoint     *)
(* succeeded with a latency <= threshold_ms; the good samples are exactly  *)
(* the latencies of those endpoints in configured order; every other       *)
(* endpoint (failed, slow, or successful without a latency) is counted in  *)
(* neither and is listed in the detail, in order, a slow one with its      *)
(* latency.                                                                *)
C11_VerdictIsAnyGoodEndpoint ==
  last_check # << >> =>
    LET r == last_check[1]
        n == Len(config.target_servers)
    IN  /\ Len(last_probe) = n
        /\ r.is_connected <=> \E i \in 1..n : IsGood(i)
        /\ r.response_times = GoodSamples(last_probe)
        /\ r.status_detail.good = Cardinality({i \in 1..n : IsGood(i)})
        /\ r.status_detail.total = n
        /\ r.status_detail.failed = ExpectedFailed

\* three endpoints: one slow, one failed, one good
C11_Witness ==
  /\ last_check # << >>
  /\ config.target_servers = <<"A", "B", "C">>
  /\ config.threshold_ms = 1
  /\ last_probe = << <<TRUE, 2>>, <<FALSE, None>>, <<TRUE, 1>> >>
  /\ last_check[1].is_connected
  /\ last_check[1].response_times = <<1>>
  /\ Len(last_check[1].status_detail.failed) = 2

----------------------------------------------------------------------------
(* C12: after n completed check cycles the history holds one entry per     *)
(* cycle, and a snapshot reports total_checks = n.                         *)
C12_OneHistoryEntryPerCycle ==
  /\ Len(connection_log) = Len(verdicts)
  /\ connection_log # << >> =>
       \A now \in QueryTimes :
         LET s == GenerateStats(Self, now)
         IN  s.raised = "none" => s.total_checks = Len(verdicts)

(* C13: the monitoring time is measured from the first check cycle of the  *)
(* run: that cycle puts the first entry in the history, stamped with a     *)
(* time read during the cycle, the first entry never changes afterwards,   *)
(* and monitoring_start of every snapshot is its timestamp.                *)
C13_MonitoringStartsAtFirstCycle ==
  /\ [](connection_log # << >> =>
          \A now \in QueryTimes :
            LET s == GenerateStats(Self, now)
            IN  s.raised = "none" =>
                  s.monitoring_start = connection_log[1].timestamp)
  /\ [][ /\ (IsCycle /\ verdicts = << >>) =>
              /\ connection_log' # << >>
              /\ connection_log'[1].timestamp >= clock
              /\ connection_log'[1].timestamp <= clock'
         /\ connection_log # << >> =>
              /\ connection_log' # << >>
              /\ connection_log'[1] = connection_log[1] ]_vars

----------------------------------------------------------------------------
\* number of UP-to-DOWN transitions a verdict sequence causes: the cycles
\* at which the run of consecutive failures reaches the alert threshold
Transitions(v) ==
  Cardinality({k \in 1..Len(v) :
     TrailingFailures(SubSeq(v, 1, k)) = config.alert_after_failures})

\* number of connected=false cycles of a verdict sequence
FailedCycles(v) == Cardinality({k \in 1..Len(v) : ~v[k]})

(* C14: connection_failures of every snapshot is the number of UP-to-DOWN  *)
(* transitions since start, not the number of failed cycles: it is the     *)
(* number of cycles at which the run of consecutive failures reached       *)
(* alert_after_failures.                                                   *)
C14_FailuresCountTransitions ==
  connection_log # << >> =>
    \A now \in QueryTimes :
      LET s == GenerateStats(Self, now)
      IN  s.raised = "none" =>
            /\ s.connection_failures = Transitions(verdicts)
            /\ s.connection_failures <= FailedCycles(verdicts)

\* two outages out of three failed cycles, one of them while already DOWN
C14_Witness ==
  /\ config.alert_after_failures = 1
  /\ verdicts = <<FALSE, FALSE, TRUE, FALSE>>
  /\ GenerateStats(Self, clock).raised = "none"
  /\ GenerateStats(Self, clock).connection_failures = 2

----------------------------------------------------------------------------
\* the samples the response-time statistics are computed over
StatSamples == AllResponseTimes(connection_log)

\* the values of a sequence, as a set
Values(a) == {a[i] : i \in 1..Len(a)}

(* C15: the response-time statistics are computed over all good samples of *)
(* every check cycle since start: each cycle adds exactly its good samples *)
(* to the samples of the statistics (for both verbose settings), every     *)
(* sample is <= threshold_ms, min, max, mean and median are those of the   *)
(* samples, and all four are 0 when there is no sample.                    *)
C15_ResponseStatsOverAllCycles ==
  /\ [](connection_log # << >> =>
          \A now \in QueryTimes :
            LET s == GenerateStats(Self, now)
                a == StatSamples
                n == Len(a)
            IN  s.raised = "none" =>
                  /\ \A x \in Values(a) : x <= config.threshold_ms
                  /\ a = << >> =>
                       /\ s.min_response_time_ms = 0
                       /\ s.max_response_time_ms = 0
                       /\ s.average_response_time_ms = 0
                       /\ s.median_response_time_ms = 0
                  /\ a # << >> =>
                       /\ \E x \in Values(a) :
                            /\ s.min_response_time_ms = 100 * x
                            /\ \A y \in Values(a) : x <= y
                       /\ \E x \in Values(a) :
                            /\ s.max_response_time_ms = 100 * x
                            /\ \A y \in Values(a) : x >= y
                       /\ 2 * (s.average_response_time_ms * n - 100 * SumSeq(a)) <= n
                       /\ 2 * (100 * SumSeq(a) - s.average_response_time_ms * n) <= n
                       /\ s.median_response_time_ms >= s.min_response_time_ms
                       /\ s.median_response_time_ms <= s.max_response_time_ms)
  /\ [][ IsCycle =>
           AllResponseTimes(connection_log') =
             AllResponseTimes(connection_log) \o GoodSamples(last_probe') ]_vars

----------------------------------------------------------------------------
\* the durations of the closed periods, as a set
ClosedDurations ==
  {downtime_periods[i].duration_seconds : i \in 1..Len(downtime_periods)}

(* C16: in every snapshot of a non-empty history the downtime-period       *)
(* statistics are those of the closed periods only (longest and shortest   *)
(* closed duration, mean of the closed durations rounded to two decimals), *)
(* whatever outage is in progress, and the three fields are absent exactly *)
(* when the ledger holds no closed period.                                 *)
C16_DowntimeStatsOverClosedPeriods ==
  connection_log # << >> =>
    \A now \in QueryTimes :
      LET s == GenerateStats(Self, now)
          n == Len(downtime_periods)
      IN  s.raised = "none" =>
            /\ (n = 0) <=> (s.fields \cap DowntimeKeys = {})
            /\ (n > 0) <=> (DowntimeKeys \subseteq s.fields)
            /\ n > 0 =>
                 /\ s.longest_downtime_seconds \in ClosedDurations
                 /\ \A x \in ClosedDurations : x <= s.longest_downtime_seconds
                 /\ s.shortest_downtime_seconds \in ClosedDurations
                 /\ \A x \in ClosedDurations : x >= s.shortest_downtime_seconds
                 /\ 2 * (s.average_downtime_seconds * n - 100 * ClosedDowntime) <= n
                 /\ 2 * (100 * ClosedDowntime - s.average_downtime_seconds * n) <= n

\* one closed period in the ledger and a later outage in progress
C16_Witness ==
  /\ pc = "sleep"
  /\ Down
  /\ Len(downtime_periods) = 1
  /\ clock > current_downtime_start
  /\ GenerateStats(Self, clock).raised = "none"
  /\ DowntimeKeys \subseteq GenerateStats(Self, clock).fields

----------------------------------------------------------------------------
(* C17: generate_stats is a pure read: a call leaves history, ledger,      *)
(* connection state and statistics file as they were, so a second call     *)
(* made after it returns, for the same now, the snapshot the first call    *)
(* returned, and for any later now what it would have returned without     *)
(* the first call.                                                         *)
C17_GenerateStatsIsPureRead ==
  \A d \in Advance :
    LET call == CallGenerateStats(Self, d)
        m1   == call.m
    IN  /\ m1.connection_log = connection_log
        /\ m1.downtime_periods = downtime_periods
        /\ m1.current_downtime_start = current_downtime_start
        /\ m1.stats_file = stats_file
        /\ m1.exc = exc
        /\ CallGenerateStats(m1, 0).stats = call.stats
        /\ \A now \in QueryTimes : GenerateStats(m1, now) = GenerateStats(Self, now)

\* run has ended after save_stats and print_summary each called
\* generate_stats on a non-empty history with a closed period
C17_Witness ==
  /\ pc = "done"
  /\ exc = "none"
  /\ connection_log # << >>
  /\ downtime_periods # << >>
  /\ stats_file # << >>
  /\ stats_file[1] = GenerateStats(Self, stats_file[1].last_updated)

----------------------------------------------------------------------------
\* the step is the signal handler
IsSignal == running /\ ~running' /\ pc' = pc

\* the sleep in progress can end within the clock range explored
SleepCanEnd == pc = "sleep" => clock + config.check_interval <= MaxTime

(* C18: a stop signal only sets running to False: history, ledger,         *)
(* connection state, failure count and statistics file are untouched; once *)
(* running is False no further check cycle starts; the finally block,      *)
(* entered while a period is open, appends the closed record of that       *)
(* period; and (as long as the sleep in progress can end within the clock  *)
(* range explored) the finally block of run is eventually executed.        *)
C18_StopSignalLeadsToFinalization ==
  /\ [][ IsSignal =>
           UNCHANGED <<config, connection_log, downtime_periods,
                       current_downtime_start, consecutive_failures,
                       stats_file, exc, clock, verdicts>> ]_vars
  /\ [][ ~running => ~IsCycle ]_vars
  /\ [][ IsFinally /\ Down =>
           /\ AppendsOne(downtime_periods, downtime_periods')
           /\ Last(downtime_periods').start = current_downtime_start ]_vars
  /\ (~running /\ SleepCanEnd) ~> (pc = "done")

\* the signal arrived during the sleep of a cycle that left the monitor
\* DOWN, and run has ended with the period closed and the statistics saved
C18_Witness ==
  /\ pc = "done"
  /\ ~running
  /\ Down
  /\ Len(verdicts) = 2
  /\ Len(downtime_periods) = 1
  /\ stats_file # << >>
  /\ exc = "none"

----------------------------------------------------------------------------
(* C19: every closed record of the ledger, closed by a restoration or by   *)
(* the finally block, has duration_seconds = end - start and end >= start, *)
(* also when the clock advances between the clock reads made while closing.*)
C19_DurationIsEndMinusStart ==
  \A i \in 1..Len(downtime_periods) :
    /\ downtime_periods[i].duration_seconds =
         downtime_periods[i].end - downtime_periods[i].start
    /\ downtime_periods[i].end >= downtime_periods[i].start

----------------------------------------------------------------------------
\* the ledger is in chronological order: a period starts no earlier than
\* the one before it ended
Chronological(ledger) ==
  \A i \in 2..Len(ledger) : ledger[i].start >= ledger[i - 1].end

(* C20: the ledger of closed periods is append-only and chronological: a   *)
(* step leaves it unchanged or appends exactly one record to it, so no     *)
(* record is ever modified or removed, and each record starts no earlier   *)
(* than the previous record ended.                                         *)
C20_LedgerAppendOnlyOrdered ==
  /\ [](Chronological(downtime_periods))
  /\ [][ \/ downtime_periods' = downtime_periods
         \/ AppendsOne(downtime_periods, downtime_periods') ]_vars

\* two outages have been closed, the second one after the first
C20_Witness ==
  /\ Len(downtime_periods) = 2
  /\ downtime_periods[2].start >= downtime_periods[1].end

----------------------------------------------------------------------------
\* the statistics file after an attempt to save the snapshot of the state
\* the step ends in: written, left as it was, or truncated
AfterSaveAttempt ==
  {<<GenerateStats(Self', clock')>>, stats_file, << >>}

(* C21: a failure of the log-file write or of the statistics-file write    *)
(* does not interrupt the loop and does not change in-memory state: every  *)
(* check cycle ends at the sleep without an exception, and history, ledger,*)
(* UP/DOWN state, failure count and clock end as in a cycle with the same  *)
(* probe results whose writes succeed; the statistics file is written only *)
(* by the scheduled save of a cycle (history length a multiple of 10) and  *)
(* by the finally block, so a failed save is not retried before the next   *)
(* scheduled one.                                                          *)
C21_WriteFailureKeepsMemory ==
  /\ [][ IsCycle =>
           /\ pc' = "sleep"
           /\ exc' = "none"
           /\ \E d \in Reads :
                LET r == RunCycle(Self, config, consecutive_failures, last_probe', d)
                IN  /\ connection_log' = r.m.connection_log
                    /\ downtime_periods' = r.m.downtime_periods
                    /\ current_downtime_start' = r.m.current_downtime_start
                    /\ clock' = r.m.clock
                    /\ consecutive_failures' = r.failures
           /\ IF Len(connection_log') % SavePeriod = 0
              THEN stats_file' \in AfterSaveAttempt
              ELSE stats_file' = stats_file ]_vars
  /\ [][ stats_file' # stats_file => IsCycle \/ IsFinally ]_vars
  /\ [][ Len(log_file') # Len(log_file) =>
           AppendsOne(connection_log, connection_log') ]_vars

\* the save of the first cycle failed and so did the log write of the DOWN
\* event of the second cycle: the event is in the history, the monitor DOWN
C21_Witness ==
  /\ pc = "sleep"
  /\ config.alert_after_failures = 2
  /\ verdicts = <<FALSE, FALSE>>
  /\ Down
  /\ Len(connection_log) = 1
  /\ log_file = << >>
  /\ stats_file = << >>

----------------------------------------------------------------------------
\* the step opens a downtime period: it sets a new outage start
OpensPeriod ==
  /\ current_downtime_start' # None
  /\ current_downtime_start' # current_downtime_start

\* the step closes a downtime period: it adds a record to the ledger or
\* clears the outage start
ClosesPeriod ==
  \/ downtime_periods' # downtime_periods
  \/ (Down /\ ~Down')

(* C22: for every verdict sequence the loop and its handlers never open a  *)
(* downtime period while one is open and never close one when none is      *)
(* open: a step sets a new outage start only from the state without one,   *)
(* and a step adds a ledger record only for the period that is open, whose *)
(* start the new record carries.                                           *)
C22_NoLedgerMisuse ==
  [][ /\ OpensPeriod => ~Down
      /\ ClosesPeriod =>
           /\ Down
           /\ AppendsOne(downtime_periods, downtime_periods')
           /\ Last(downtime_periods').start = current_downtime_start ]_vars

\* a connected cycle while UP, then an outage and a further failed cycle
\* during it: neither a close nor a second open was made
C22_Witness ==
  /\ config.alert_after_failures = 1
  /\ verdicts = <<TRUE, FALSE, FALSE>>
  /\ Down
  /\ clock > current_downtime_start
  /\ downtime_periods = << >>
  /\ CountDown(connection_log) = 1

----------------------------------------------------------------------------
\* what check_connectivity returns when no endpoint is configured:
\* (False, [], "Good servers: 0/0")
NoEndpointResult ==
  [ is_connected   |-> FALSE,
    response_times |-> << >>,
    status_detail  |-> [good |-> 0, total |-> 0, failed |-> << >>] ]

(* C23: with zero endpoints configured check_connectivity does not fail    *)
(* and returns connected=false, no good sample and the detail "Good        *)
(* servers: 0/0": every cycle completes with that result, the monitor is   *)
(* DOWN from the alert_after_failures-th cycle on and never returns to UP. *)
C23_ZeroEndpointsGoDown ==
  /\ [](config.target_servers = << >> =>
          /\ last_check # << >> => last_check[1] = NoEndpointResult
          /\ \A i \in 1..Len(verdicts) : ~verdicts[i]
          /\ Down <=> Len(verdicts) >= config.alert_after_failures)
  /\ [][ config.target_servers = << >> =>
           /\ IsCycle => (pc' = "sleep" /\ exc' = "none")
           /\ Down => Down' ]_vars

\* no endpoint, threshold 2: DOWN since the second of three cycles
C23_Witness ==
  /\ config.target_servers = << >>
  /\ config.alert_after_failures = 2
  /\ Len(verdicts) = 3
  /\ Down
  /\ pc = "sleep"
  /\ CountDown(connection_log) = 1

----------------------------------------------------------------------------
\* the step enters DOWN
EntersDown == ~Down /\ Down'

(* C24: the start of a downtime period is a time read during the           *)
(* transition cycle, the alert_after_failures-th consecutive failed cycle  *)
(* (not an earlier failed cycle); the DOWN event is logged in that same    *)
(* cycle, stamped no earlier than the start, and it is the only DOWN event *)
(* of the outage: DOWN events are logged by entering DOWN and by nothing   *)
(* else.                                                                   *)
C24_StartIsTransitionTime ==
  [][ /\ EntersDown =>
           /\ IsCycle
           /\ ~CycleVerdict
           /\ TrailingFailures(verdicts') = config.alert_after_failures
           /\ current_downtime_start' >= clock
           /\ current_downtime_start' <= clock'
           /\ AppendsOne(connection_log, connection_log')
           /\ Last(connection_log').event = "DOWN"
           /\ Last(connection_log').timestamp >= current_downtime_start'
           /\ Last(connection_log').timestamp <= clock'
      /\ CountDown(connection_log') # CountDown(connection_log) =>
           /\ EntersDown
           /\ CountDown(connection_log') = CountDown(connection_log) + 1 ]_vars

\* threshold 2 and one tick between the cycles: the outage starts at the
\* second failed cycle, later than the first one (made at time 0), and a
\* third failed cycle added no DOWN event
C24_Witness ==
  /\ config.alert_after_failures = 2
  /\ config.check_interval = 1
  /\ verdicts = <<FALSE, FALSE, FALSE>>
  /\ Down
  /\ current_downtime_start >= 1
  /\ CountDown(connection_log) = 1
  /\ connection_log[1].timestamp >= current_downtime_start

----------------------------------------------------------------------------
----------------------------------------------------------------------------
(* C26: while UP, a cycle with connected=true sets the consecutive-failure *)
(* counter to 0 and leaves the ledger and the (absent) outage start as     *)
(* they are; with verbose on it appends one routine UP event carrying the  *)
(* cycle's good samples to the history, with verbose off it leaves the     *)
(* history unchanged.                                                      *)
C26_ConnectedCycleWhileUp ==
  [][ (IsCycle /\ ~Down /\ CycleVerdict) =>
        /\ consecutive_failures' = 0
        /\ downtime_periods' = downtime_periods
        /\ current_downtime_start' = current_downtime_start
        /\ IF config.verbose
           THEN /\ AppendsOne(connection_log, connection_log')
                /\ Last(connection_log').event = "UP"
                /\ Last(connection_log').message.kind = "routine"
                /\ Last(connection_log').response_times = GoodSamples(last_probe')
           ELSE connection_log' = connection_log ]_vars

\* verbose: a connected cycle after a failed one below the threshold has
\* reset the counter and logged its routine event
C26_Witness ==
  /\ config.verbose
  /\ config.alert_after_failures = 2
  /\ verdicts = <<FALSE, TRUE>>
  /\ consecutive_failures = 0
  /\ ~Down
  /\ downtime_periods = << >>
  /\ Len(connection_log) = 1
  /\ connection_log[1].message.kind = "routine"

----------------------------------------------------------------------------
\* the DOWN events and the restoration UP events of a history, in order
IsTransitionEvent(e) ==
  e.event = "DOWN" \/ (e.event = "UP" /\ e.message.kind = "restored")

TransitionEvents(log) == SelectSeq(log, IsTransitionEvent)

(* C27: until the finally block has run, the DOWN events and the           *)
(* restoration UP events of the history alternate strictly, starting with  *)
(* a DOWN event, and the number of DOWN events is the number of closed     *)
(* ledger records plus 1 if a period is open.                              *)
C27_DownAndRestoredAlternate ==
  [](pc # "done" =>
       LET t == TransitionEvents(connection_log)
       IN  /\ \A i \in 1..Len(t) :
                IF i % 2 = 1 THEN t[i].event = "DOWN" ELSE t[i].event = "UP"
           /\ CountDown(connection_log) =
                Len(downtime_periods) + (IF Down THEN 1 ELSE 0)
           /\ Len(t) - CountDown(connection_log) = Len(downtime_periods))

\* a second outage is in progress after a restored one
C27_Witness ==
  /\ pc = "sleep"
  /\ Down
  /\ Len(downtime_periods) = 1
  /\ CountDown(connection_log) = 2
  /\ Len(TransitionEvents(connection_log)) = 3

----------------------------------------------------------------------------
(* C28: at the end of a check cycle the statistics are saved exactly when  *)
(* the history length is a multiple of 10 (0 included): in a cycle that    *)
(* ends with such a length the statistics file then holds the snapshot of  *)
(* the monitor taken in that cycle, and a cycle that ends with any other   *)
(* length leaves the statistics file as it was.                            *)
C28_SavedExactlyAtMultiplesOfTen ==
  [][ IsCycle =>
        IF Len(connection_log') % SavePeriod = 0
        THEN stats_file' = <<GenerateStats(Self', clock')>>
        ELSE stats_file' = stats_file ]_vars

----------------------------------------------------------------------------
\* the step is a poll of the pointer position
IsPoll == polls' = polls + 1

\* the move a poll attempted has its target inside the margins of the
\* screen it was computed for
TargetWithinMargins(n) ==
  n.attempted =>
    /\ ScreenMargin <= n.target[1] /\ n.target[1] <= n.screen[1] - ScreenMargin
    /\ ScreenMargin <= n.target[2] /\ n.target[2] <= n.screen[2] - ScreenMargin

\* the poll just made and the one before it both returned a position
BothPolled ==
  current_mouse_position # NoPosition /\ current_mouse_position' # NoPosition

\* idle_time as the poll just made tested it against idle_threshold
IdleTimeTested == IF nudge'.moved THEN idle_time + 1 ELSE idle_time'

----------------------------------------------------------------------------
\* the step is one test of run_multiple_tests
IsTest == Len(test_outcomes') = Len(test_outcomes) + 1

\* the test succeeded
Succeeded(outcome) == outcome # None

(* C30: run_multiple_tests(count) runs exactly count tests in order; each  *)
(* successful test is appended to test_history and the history is written  *)
(* to the history file in the same pass, a failed test leaves test_history *)
(* (and the file) unchanged, the returned list holds exactly the           *)
(* successful results in order, and the wait is made only after a          *)
(* successful test that is not the last one.                               *)
C30_RunMultipleTests ==
  /\ [][ IsTest =>
           LET outcome == test_outcomes'[Len(test_outcomes')]
           IN  /\ Len(test_outcomes') = test_index'
               /\ test_index' = test_index + 1
               /\ test_index' <= test_count
               /\ IF Succeeded(outcome)
                  THEN /\ test_history' = Append(test_history, outcome)
                       /\ history_file' = test_history'
                       /\ (test_index \in waits') <=> (test_index < test_count - 1)
                  ELSE /\ test_history' = test_history
                       /\ history_file' = history_file
                       /\ test_index \notin waits'
               /\ waits' \ {test_index} = waits ]_vars
  /\ [](tester_pc = "returned" =>
          /\ Len(test_outcomes) = test_count
          /\ returned = SelectSeq(test_outcomes, Succeeded)
          /\ waits = {k \in 0..(test_count - 2) : Succeeded(test_outcomes[k + 1])})

\* a call with count 3 on a stored history has returned: the first and the
\* last test succeeded, the wait was made after the first only
C30_Witness ==
  /\ tester_pc = "returned"
  /\ test_count = 3
  /\ test_outcomes = <<2, None, 1>>
  /\ returned = <<2, 1>>
  /\ test_history = <<1, 2, 1>>
  /\ history_file = test_history
  /\ waits = {0}

============================================================================
